---- MODULE Spec2Model ----
(***************************************************************************)
(* Model of the flight recorder control service (flightrecorder.go).       *)
(*                                                                         *)
(* A Service owns a trace.FlightRecorder (the "capability"), a            *)
(* sync.RWMutex and the desired configuration (period, size).  Concurrent  *)
(* callers invoke Status, Start, Stop, Snapshot and Update.  Every method  *)
(* is modelled statement by statement, so that the interleavings the lock  *)
(* permits (and the ones it forbids) are the ones TLC explores.            *)
(***************************************************************************)
EXTENDS Integers, Sequences, FiniteSets, TLC

\* ------------------------------------------------------------------ bounds

\* Number of concurrent callers (goroutines serving requests).
NumCallers == 2

\* Update requests carry period k * DefaultPeriod, k in 0..MaxPeriodMult.
MaxPeriodMult == 1

\* Update requests carry size k * DefaultSize, k in 0..MaxSizeMult.
MaxSizeMult == 1

\* Largest small coefficient of the sizes handed to the encoder.
MaxCoef == 2

\* Longest text handed to the decoder.
MaxLen == 4

\* Constructions of a Service that are followed (a further one is not run).
MaxBuilt == 2

\* ------------------------------------------------------- program constants

\* 1 * time.Second.  Durations are counted in milliseconds here (a
\* time.Duration counts nanoseconds; every duration of the model is a whole
\* number of milliseconds, and the service never does arithmetic on one).
DefaultPeriod == 1000

\* 64 * 1024 * 1024 bytes.
DefaultSize == 64 * 1024 * 1024

Callers == 1..NumCallers

\* A nil error, as a message.
Nil == "nil"

\* A pointer to an integer: <<>> is the nil pointer, <<v>> points to v.
NilPtr == <<>>

Ptr(v) == <<v>>

Deref(p) == p[1]

Periods == {k * DefaultPeriod : k \in 0..MaxPeriodMult}

Sizes == {k * DefaultSize : k \in 0..MaxSizeMult}

\* The byte sequences the capability may write into a snapshot buffer.
Data == {<<>>, <<7>>, <<7, 9>>}

\* UpdateRequest{Period *time.Duration, Size *int}: a nil pointer is an absent field.
UpdateRequest == [Period : {NilPtr} \cup {Ptr(p) : p \in Periods},
                  Size : {NilPtr} \cup {Ptr(n) : n \in Sizes}]

NoRequest == [Period |-> NilPtr, Size |-> NilPtr]

\* ------------------------------------------------------------------ errors

\* An error value: its message and the message of the error it wraps (%w).
Error(msg, wraps) == [msg |-> msg, wraps |-> wraps]

NoError == Error(Nil, Nil)

\* Errors made by the service with fmt.Errorf.
ErrAlreadyRunning == Error("flight recorder is already running", Nil)

ErrNotRunning == Error("flight recorder is not running", Nil)

ErrSnapshotInProgress == Error("flight recorder snapshot already in progress", Nil)

ErrWriteFailed(cause) == Error("failed to write snapshot: " \o cause.msg, cause.msg)

\* Errors of the capability.
ErrSnapshotActive == Error("call to WriteTo for trace.FlightRecorder already in progress", Nil)

ErrCapWrite == Error("write error", Nil)

ErrCapStart == Error("tracing is already enabled", Nil)

ErrCapStop == Error("flight recorder stop failed", Nil)

\* errors.Is(err, target): err is target or wraps it.
ErrorsIs(err, target) == err # NoError /\ (err.msg = target.msg \/ err.wraps = target.msg)

\* --------------------------------------------------------------- variables

VARIABLES
    period,     \* Service.period
    size,       \* Service.size
    recorder,   \* the capability: [enabled, period, size, snapshotting]
    mu,         \* Service.mu: [w: the writer holding or awaiting the lock (at most one), r: the readers holding it]
    pc,         \* each caller's position
    req,        \* each caller's UpdateRequest argument
    ret,        \* each caller's result: [status, bytes, err]
    buf,        \* Snapshot's local bytes.Buffer
    werr,       \* Snapshot's local err (the result of WriteTo)
    pre,        \* history: the state when the caller acquired the lock
    calls,      \* history: the capability calls the caller's operation has made
    fresh,      \* history: no Start, Stop or Update has been invoked since construction
    codec,      \* a byte-size conversion in progress (the codec, on its own)
    http,       \* per goroutine of the HTTP server: the request served and its response
    once,       \* sync.Once: done, and the holder of its mutex
    service,    \* the global pointer: the Service it points to, or nil
    held,       \* per caller: the Service that InitService returned to it
    built       \* history: the number of Services constructed

\* The Service, its callers and their history.
svars == <<period, size, recorder, mu, pc, req, ret, buf, werr, pre, calls, fresh>>

\* The process-wide instance and its gate.
ovars == <<once, service, held, built>>

vars == <<svars, codec, http, ovars>>

\* The zero StatusResponse.
NoStatus == [Enabled |-> FALSE, Period |-> 0, Size |-> 0]

\* A []byte result: <<>> is nil, <<b>> is the slice b.
NoBytes == <<>>

NoRet == [status |-> NoStatus, bytes |-> NoBytes, err |-> NoError]

\* The state an operation can change: Configuration and capability.
Snap == [period |-> period, size |-> size, enabled |-> recorder.enabled,
         rperiod |-> recorder.period, rsize |-> recorder.size]

NoSnap == [period |-> 0, size |-> 0, enabled |-> FALSE, rperiod |-> 0, rsize |-> 0]

\* ------------------------------------------------------------ capability

\* trace.NewFlightRecorder(): not enabled, no export active.  Its own period
\* and size are the library's until set (10 s and 10 MiB): values that no
\* Configuration of the model takes, so a value the service pushed is told
\* from one it did not.
NewFlightRecorder == [enabled |-> FALSE, period |-> 10 * DefaultPeriod,
                      size |-> 10 * 1024 * 1024, snapshotting |-> {}]

\* recorder.Enabled()
Enabled == recorder.enabled

\* recorder.SetPeriod(d)
SetPeriod(r, d) == [r EXCEPT !.period = d]

\* recorder.SetSize(n)
SetSize(r, n) == [r EXCEPT !.size = n]

\* ------------------------------------------------------------------- lock

\* mu.Lock(), first half: the writer announces itself; later RLock calls wait.
LockAnnounce(t) ==
    /\ mu.w = {}
    /\ mu' = [mu EXCEPT !.w = {t}]

\* mu.Lock(), second half: the announced writer waits for the readers to leave.
LockEnter(t) ==
    /\ mu.w = {t}
    /\ mu.r = {}
    /\ UNCHANGED mu

\* mu.RLock(): blocks while a writer holds or awaits the lock.
RLock(t) ==
    /\ mu.w = {}
    /\ mu' = [mu EXCEPT !.r = @ \cup {t}]

\* mu.Unlock()
Unlock(t) == mu' = [mu EXCEPT !.w = @ \ {t}]

\* mu.RUnlock()
RUnlock(t) == mu' = [mu EXCEPT !.r = @ \ {t}]

\* ------------------------------------------------------------------- init

\* The callers are idle and nothing has happened.
Idle ==
    /\ mu = [w |-> {}, r |-> {}]
    /\ pc = [t \in Callers |-> "idle"]
    /\ req = [t \in Callers |-> NoRequest]
    /\ ret = [t \in Callers |-> NoRet]
    /\ buf = [t \in Callers |-> <<>>]
    /\ werr = [t \in Callers |-> NoError]
    /\ pre = [t \in Callers |-> NoSnap]
    /\ calls = [t \in Callers |-> <<>>]
    /\ fresh = TRUE

\* Mutant of InitService: the default size is 64 decimal megabytes.
InitServiceDecimal ==
    /\ period = DefaultPeriod
    /\ size = 64 * 1000 * 1000
    /\ recorder = NewFlightRecorder

\* InitService(): service = &Service{recorder, period: 1s, size: 64MB}.
InitService ==
    /\ period = DefaultPeriod
    /\ size = DefaultSize
    /\ recorder = NewFlightRecorder

\* No request served.
NoPayload == [json |-> "none", period |-> NilPtr, size |-> NilPtr]

\* No conversion in progress.
NoCodec == [op |-> "none", stage |-> 0, size |-> 0, text |-> <<>>,
            enc |-> <<>>, dec |-> [ok |-> FALSE, val |-> 0], enc2 |-> <<>>,
            u |-> NoRequest, data |-> NoPayload, err |-> NoError]

NoHttp == [handler |-> "none", payload |-> NoPayload, req |-> NoRequest,
           code |-> 0, err |-> NoError]

\* var service *Service, before InitService.
NilService == 0

\* InitService has run and every caller holds the Service.
Constructed ==
    /\ once = [done |-> TRUE, m |-> {}]
    /\ service = 1
    /\ held = [t \in Callers |-> 1]
    /\ built = 1

\* The state after construction.
Init ==
    /\ InitService
    /\ Idle
    /\ codec = NoCodec
    /\ http = [t \in Callers |-> NoHttp]
    /\ Constructed

\* A step of one of the Service's methods: caller t moves to position l.
\* (Reaching the first position of Start, Stop or Update is its invocation.)
Jump(t, l) ==
    /\ pc' = [pc EXCEPT ![t] = l]
    /\ fresh' = (fresh /\ l \notin {"Start_Lock", "Stop_Lock", "Update_Lock"})

\* A step of a method called directly.
Goto(t, l) ==
    /\ Jump(t, l)
    /\ UNCHANGED <<codec, http, ovars>>

\* The positions between Lock() and Unlock() of Start, Stop and Update.
WriteSection == {"Start_Enabled", "Start_SetPeriod", "Start_SetSize", "Start_Start", "Start_Unlock",
                 "Stop_Enabled", "Stop_Stop", "Stop_Unlock",
                 "Update_Period", "Update_PushPeriod", "Update_Size", "Update_PushSize",
                 "Update_Unlock"}

\* The positions between RLock() and RUnlock() of Status and Snapshot.
ReadSection == {"Status_Enabled", "Status_Period", "Status_Size", "Status_RUnlock",
                "Snapshot_Enabled", "Snapshot_WriteTo", "Snapshot_Writing", "Snapshot_Result",
                "Snapshot_RUnlock"}

InWrite(t) == pc[t] \in WriteSection

InRead(t) == pc[t] \in ReadSection

Did(t, c) == calls' = [calls EXCEPT ![t] = Append(@, c)]

\* ------------------------------------------------------------ invocation

\* A caller invokes one of the five operations.  (Update's argument is
\* drawn where Update first can read it, on entering its critical section.)
Call(t) ==
    /\ pc[t] = "idle"
    /\ \E o \in {"Status_RLock", "Start_Lock", "Stop_Lock", "Snapshot_RLock", "Update_Lock"} :
         Goto(t, o)
    /\ UNCHANGED <<period, size, recorder, mu, req, ret, buf, werr, pre, calls>>

\* The locals of the operation are dropped.
Drop(t) ==
    /\ req' = [req EXCEPT ![t] = NoRequest]
    /\ ret' = [ret EXCEPT ![t] = NoRet]
    /\ buf' = [buf EXCEPT ![t] = <<>>]
    /\ werr' = [werr EXCEPT ![t] = NoError]
    /\ pre' = [pre EXCEPT ![t] = NoSnap]
    /\ calls' = [calls EXCEPT ![t] = <<>>]

\* The operation returns ret[t] to its caller: its locals are dropped.
Return(t) ==
    /\ Goto(t, "idle")
    /\ Drop(t)

\* The writer enters its critical section: the history variables start afresh.
Enter(t, l) ==
    /\ Goto(t, l)
    /\ pre' = [pre EXCEPT ![t] = Snap]

\* ----------------------------------------------------------------- Status

\* Mutant of StatusRLock: Status reads without taking the lock.
StatusRLockNone(t) ==
    /\ pc[t] = "Status_RLock"
    /\ Enter(t, "Status_Enabled")
    /\ UNCHANGED <<period, size, recorder, mu, req, ret, buf, werr, calls>>

\* s.mu.RLock()
StatusRLock(t) ==
    /\ pc[t] = "Status_RLock"
    /\ RLock(t)
    /\ Enter(t, "Status_Enabled")
    /\ UNCHANGED <<period, size, recorder, req, ret, buf, werr, calls>>

\* Enabled: s.recorder.Enabled()
StatusEnabled(t) ==
    /\ pc[t] = "Status_Enabled"
    /\ ret' = [ret EXCEPT ![t].status.Enabled = Enabled]
    /\ Goto(t, "Status_Period")
    /\ UNCHANGED <<period, size, recorder, mu, req, buf, werr, pre, calls>>

\* Period: s.period
StatusPeriod(t) ==
    /\ pc[t] = "Status_Period"
    /\ ret' = [ret EXCEPT ![t].status.Period = period]
    /\ Goto(t, "Status_Size")
    /\ UNCHANGED <<period, size, recorder, mu, req, buf, werr, pre, calls>>

\* Size: s.size
StatusSize(t) ==
    /\ pc[t] = "Status_Size"
    /\ ret' = [ret EXCEPT ![t].status.Size = size]
    /\ Goto(t, "Status_RUnlock")
    /\ UNCHANGED <<period, size, recorder, mu, req, buf, werr, pre, calls>>

\* defer s.mu.RUnlock()
StatusRUnlock(t) ==
    /\ pc[t] = "Status_RUnlock"
    /\ RUnlock(t)
    /\ Return(t)
    /\ UNCHANGED <<period, size, recorder>>

\* ------------------------------------------------------------------ Start

\* s.mu.Lock()
StartLock(t) ==
    \/ /\ pc[t] = "Start_Lock"
       /\ LockAnnounce(t)
       /\ Goto(t, "Start_LockWait")
       /\ UNCHANGED <<period, size, recorder, req, ret, buf, werr, pre, calls>>
    \/ /\ pc[t] = "Start_LockWait"
       /\ LockEnter(t)
       /\ Enter(t, "Start_Enabled")
       /\ UNCHANGED <<period, size, recorder, req, ret, buf, werr, calls>>

\* Mutant of StartEnabled: the running check is missing.
StartEnabledUnchecked(t) ==
    /\ pc[t] = "Start_Enabled"
    /\ Goto(t, "Start_SetPeriod")
    /\ UNCHANGED <<period, size, recorder, mu, req, ret, buf, werr, pre, calls>>

\* if s.recorder.Enabled() { return fmt.Errorf("flight recorder is already running") }
StartEnabled(t) ==
    /\ pc[t] = "Start_Enabled"
    /\ IF Enabled
         THEN /\ ret' = [ret EXCEPT ![t].err = ErrAlreadyRunning]
              /\ Goto(t, "Start_Unlock")
         ELSE /\ Goto(t, "Start_SetPeriod")
              /\ UNCHANGED ret
    /\ UNCHANGED <<period, size, recorder, mu, req, buf, werr, pre, calls>>

\* Mutant of StartSetPeriod: the default is pushed, not the stored period.
StartSetPeriodDefault(t) ==
    /\ pc[t] = "Start_SetPeriod"
    /\ recorder' = SetPeriod(recorder, DefaultPeriod)
    /\ Did(t, <<"SetPeriod", DefaultPeriod>>)
    /\ Goto(t, "Start_SetSize")
    /\ UNCHANGED <<period, size, mu, req, ret, buf, werr, pre>>

\* s.recorder.SetPeriod(s.period)
StartSetPeriod(t) ==
    /\ pc[t] = "Start_SetPeriod"
    /\ recorder' = SetPeriod(recorder, period)
    /\ Did(t, <<"SetPeriod", period>>)
    /\ Goto(t, "Start_SetSize")
    /\ UNCHANGED <<period, size, mu, req, ret, buf, werr, pre>>

\* Mutant of StartSetSize: the size is not pushed before the recorder starts.
StartSetSizeSkip(t) ==
    /\ pc[t] = "Start_SetSize"
    /\ Goto(t, "Start_Start")
    /\ UNCHANGED <<period, size, recorder, mu, req, ret, buf, werr, pre, calls>>

\* s.recorder.SetSize(s.size)
StartSetSize(t) ==
    /\ pc[t] = "Start_SetSize"
    /\ recorder' = SetSize(recorder, size)
    /\ Did(t, <<"SetSize", size>>)
    /\ Goto(t, "Start_Start")
    /\ UNCHANGED <<period, size, mu, req, ret, buf, werr, pre>>

\* return s.recorder.Start(): the capability starts, or fails and stays as it was.
StartStart(t) ==
    /\ pc[t] = "Start_Start"
    /\ \/ /\ recorder' = [recorder EXCEPT !.enabled = TRUE]
          /\ UNCHANGED ret
       \/ /\ ret' = [ret EXCEPT ![t].err = ErrCapStart]
          /\ UNCHANGED recorder
    /\ Did(t, <<"Start", 0>>)
    /\ Goto(t, "Start_Unlock")
    /\ UNCHANGED <<period, size, mu, req, buf, werr, pre>>

\* defer s.mu.Unlock()
StartUnlock(t) ==
    /\ pc[t] = "Start_Unlock"
    /\ Unlock(t)
    /\ Return(t)
    /\ UNCHANGED <<period, size, recorder>>

\* ------------------------------------------------------------------- Stop

\* s.mu.Lock()
StopLock(t) ==
    \/ /\ pc[t] = "Stop_Lock"
       /\ LockAnnounce(t)
       /\ Goto(t, "Stop_LockWait")
       /\ UNCHANGED <<period, size, recorder, req, ret, buf, werr, pre, calls>>
    \/ /\ pc[t] = "Stop_LockWait"
       /\ LockEnter(t)
       /\ Enter(t, "Stop_Enabled")
       /\ UNCHANGED <<period, size, recorder, req, ret, buf, werr, calls>>

\* if !s.recorder.Enabled() { return fmt.Errorf("flight recorder is not running") }
StopEnabled(t) ==
    /\ pc[t] = "Stop_Enabled"
    /\ IF ~Enabled
         THEN /\ ret' = [ret EXCEPT ![t].err = ErrNotRunning]
              /\ Goto(t, "Stop_Unlock")
         ELSE /\ Goto(t, "Stop_Stop")
              /\ UNCHANGED ret
    /\ UNCHANGED <<period, size, recorder, mu, req, buf, werr, pre, calls>>

\* return s.recorder.Stop(): the capability stops, or fails and stays as it was.
StopStop(t) ==
    /\ pc[t] = "Stop_Stop"
    /\ \/ /\ recorder' = [recorder EXCEPT !.enabled = FALSE]
          /\ UNCHANGED ret
       \/ /\ ret' = [ret EXCEPT ![t].err = ErrCapStop]
          /\ UNCHANGED recorder
    /\ Did(t, <<"Stop", 0>>)
    /\ Goto(t, "Stop_Unlock")
    /\ UNCHANGED <<period, size, mu, req, buf, werr, pre>>

\* Mutant of StopUnlock: Stop returns without releasing the lock.
StopUnlockLeak(t) ==
    /\ pc[t] = "Stop_Unlock"
    /\ Return(t)
    /\ UNCHANGED <<period, size, recorder, mu>>

\* defer s.mu.Unlock()
StopUnlock(t) ==
    /\ pc[t] = "Stop_Unlock"
    /\ Unlock(t)
    /\ Return(t)
    /\ UNCHANGED <<period, size, recorder>>

\* --------------------------------------------------------------- Snapshot

\* Mutant of SnapshotRLock: Snapshot waits until no other reader holds the lock.
SnapshotRLockAlone(t) ==
    /\ pc[t] = "Snapshot_RLock"
    /\ mu.r = {}
    /\ RLock(t)
    /\ Enter(t, "Snapshot_Enabled")
    /\ UNCHANGED <<period, size, recorder, req, ret, buf, werr, calls>>

\* s.mu.RLock()
SnapshotRLock(t) ==
    /\ pc[t] = "Snapshot_RLock"
    /\ RLock(t)
    /\ Enter(t, "Snapshot_Enabled")
    /\ UNCHANGED <<period, size, recorder, req, ret, buf, werr, calls>>

\* Mutant of SnapshotEnabled: the running check is missing.
SnapshotEnabledUnchecked(t) ==
    /\ pc[t] = "Snapshot_Enabled"
    /\ Goto(t, "Snapshot_WriteTo")
    /\ UNCHANGED <<period, size, recorder, mu, req, ret, buf, werr, pre, calls>>

\* if !s.recorder.Enabled() { return nil, fmt.Errorf("flight recorder is not running") }
SnapshotEnabled(t) ==
    /\ pc[t] = "Snapshot_Enabled"
    /\ IF ~Enabled
         THEN /\ ret' = [ret EXCEPT ![t].bytes = NoBytes, ![t].err = ErrNotRunning]
              /\ Goto(t, "Snapshot_RUnlock")
         ELSE /\ Goto(t, "Snapshot_WriteTo")
              /\ UNCHANGED ret
    /\ UNCHANGED <<period, size, recorder, mu, req, buf, werr, pre, calls>>

\* var buf bytes.Buffer; _, err := s.recorder.WriteTo(&buf): the call.  The
\* capability refuses with ErrSnapshotActive while another export is active.
SnapshotWriteTo(t) ==
    /\ pc[t] = "Snapshot_WriteTo"
    /\ IF recorder.snapshotting # {}
         THEN /\ werr' = [werr EXCEPT ![t] = ErrSnapshotActive]
              /\ Goto(t, "Snapshot_Result")
              /\ UNCHANGED recorder
         ELSE /\ recorder' = [recorder EXCEPT !.snapshotting = {t}]
              /\ Goto(t, "Snapshot_Writing")
              /\ UNCHANGED werr
    /\ Did(t, <<"WriteTo", 0>>)
    /\ UNCHANGED <<period, size, mu, req, ret, buf, pre>>

\* s.recorder.WriteTo(&buf): the export.  It writes bytes into buf and
\* returns nil, or fails part way with a write error.
SnapshotWriting(t) ==
    /\ pc[t] = "Snapshot_Writing"
    /\ \E d \in Data : buf' = [buf EXCEPT ![t] = d]
    /\ \/ werr' = [werr EXCEPT ![t] = NoError]
       \/ werr' = [werr EXCEPT ![t] = ErrCapWrite]
    /\ recorder' = [recorder EXCEPT !.snapshotting = {}]
    /\ Goto(t, "Snapshot_Result")
    /\ UNCHANGED <<period, size, mu, req, ret, pre, calls>>

\* Mutant of SnapshotResult: every write error is wrapped as a write failure.
SnapshotResultNoIs(t) ==
    /\ pc[t] = "Snapshot_Result"
    /\ ret' = [ret EXCEPT ![t] =
                 IF werr[t] = NoError
                   THEN [@ EXCEPT !.bytes = buf[t], !.err = NoError]
                 ELSE [@ EXCEPT !.bytes = NoBytes, !.err = ErrWriteFailed(werr[t])]]
    /\ Goto(t, "Snapshot_RUnlock")
    /\ UNCHANGED <<period, size, recorder, mu, req, buf, werr, pre, calls>>

\* if err == nil { return buf.Bytes(), nil }
\* if errors.Is(err, trace.ErrSnapshotActive) { return nil, "... already in progress" }
\* else { return nil, "failed to write snapshot: %w" }
SnapshotResult(t) ==
    /\ pc[t] = "Snapshot_Result"
    /\ ret' = [ret EXCEPT ![t] =
                 IF werr[t] = NoError
                   THEN [@ EXCEPT !.bytes = buf[t], !.err = NoError]
                 ELSE IF ErrorsIs(werr[t], ErrSnapshotActive)
                   THEN [@ EXCEPT !.bytes = NoBytes, !.err = ErrSnapshotInProgress]
                 ELSE [@ EXCEPT !.bytes = NoBytes, !.err = ErrWriteFailed(werr[t])]]
    /\ Goto(t, "Snapshot_RUnlock")
    /\ UNCHANGED <<period, size, recorder, mu, req, buf, werr, pre, calls>>

\* defer s.mu.RUnlock()
SnapshotRUnlock(t) ==
    /\ pc[t] = "Snapshot_RUnlock"
    /\ RUnlock(t)
    /\ Return(t)
    /\ UNCHANGED <<period, size, recorder>>

\* ----------------------------------------------------------------- Update

\* Mutant of UpdateLock: Update excludes other writers but not the readers.
UpdateLockNoWait(t) ==
    \/ /\ pc[t] = "Update_Lock"
       /\ LockAnnounce(t)
       /\ Goto(t, "Update_LockWait")
       /\ UNCHANGED <<period, size, recorder, req, ret, buf, werr, pre, calls>>
    \/ /\ pc[t] = "Update_LockWait"
       /\ Enter(t, "Update_Period")
       /\ \E r \in UpdateRequest : req' = [req EXCEPT ![t] = r]
       /\ UNCHANGED <<period, size, recorder, mu, ret, buf, werr, calls>>

\* s.mu.Lock() of Update(req), for req one of requests.
UpdateLockWith(t, requests) ==
    \/ /\ pc[t] = "Update_Lock"
       /\ LockAnnounce(t)
       /\ Goto(t, "Update_LockWait")
       /\ UNCHANGED <<period, size, recorder, req, ret, buf, werr, pre, calls>>
    \/ /\ pc[t] = "Update_LockWait"
       /\ LockEnter(t)
       /\ Enter(t, "Update_Period")
       /\ \E r \in requests : req' = [req EXCEPT ![t] = r]
       /\ UNCHANGED <<period, size, recorder, ret, buf, werr, calls>>

\* s.mu.Lock()
UpdateLock(t) == UpdateLockWith(t, UpdateRequest)

\* Mutant of UpdatePeriod: a present period of 0 is taken for an absent one.
UpdatePeriodZeroAbsent(t) ==
    /\ pc[t] = "Update_Period"
    /\ IF req[t].Period # NilPtr /\ Deref(req[t].Period) # 0
         THEN /\ period' = Deref(req[t].Period)
              /\ Goto(t, "Update_PushPeriod")
         ELSE /\ Goto(t, "Update_Size")
              /\ UNCHANGED period
    /\ UNCHANGED <<size, recorder, mu, req, ret, buf, werr, pre, calls>>

\* if req.Period != nil { s.period = *req.Period
UpdatePeriod(t) ==
    /\ pc[t] = "Update_Period"
    /\ IF req[t].Period # NilPtr
         THEN /\ period' = Deref(req[t].Period)
              /\ Goto(t, "Update_PushPeriod")
         ELSE /\ Goto(t, "Update_Size")
              /\ UNCHANGED period
    /\ UNCHANGED <<size, recorder, mu, req, ret, buf, werr, pre, calls>>

\* Mutant of UpdatePushPeriod: the period is pushed whether or not the recorder runs.
UpdatePushPeriodAlways(t) ==
    /\ pc[t] = "Update_PushPeriod"
    /\ recorder' = SetPeriod(recorder, period)
    /\ Did(t, <<"SetPeriod", period>>)
    /\ Goto(t, "Update_Size")
    /\ UNCHANGED <<period, size, mu, req, ret, buf, werr, pre>>

\* if s.recorder.Enabled() { s.recorder.SetPeriod(s.period) } }
UpdatePushPeriod(t) ==
    /\ pc[t] = "Update_PushPeriod"
    /\ IF Enabled
         THEN /\ recorder' = SetPeriod(recorder, period)
              /\ Did(t, <<"SetPeriod", period>>)
         ELSE UNCHANGED <<recorder, calls>>
    /\ Goto(t, "Update_Size")
    /\ UNCHANGED <<period, size, mu, req, ret, buf, werr, pre>>

\* if req.Size != nil { s.size = *req.Size
UpdateSize(t) ==
    /\ pc[t] = "Update_Size"
    /\ IF req[t].Size # NilPtr
         THEN /\ size' = Deref(req[t].Size)
              /\ Goto(t, "Update_PushSize")
         ELSE /\ Goto(t, "Update_Unlock")
              /\ UNCHANGED size
    /\ UNCHANGED <<period, recorder, mu, req, ret, buf, werr, pre, calls>>

\* Mutant of UpdatePushSize: the new size is stored but never pushed live.
UpdatePushSizeNever(t) ==
    /\ pc[t] = "Update_PushSize"
    /\ Goto(t, "Update_Unlock")
    /\ UNCHANGED <<period, size, recorder, mu, req, ret, buf, werr, pre, calls>>

\* if s.recorder.Enabled() { s.recorder.SetSize(s.size) } }
UpdatePushSize(t) ==
    /\ pc[t] = "Update_PushSize"
    /\ IF Enabled
         THEN /\ recorder' = SetSize(recorder, size)
              /\ Did(t, <<"SetSize", size>>)
         ELSE UNCHANGED <<recorder, calls>>
    /\ Goto(t, "Update_Unlock")
    /\ UNCHANGED <<period, size, mu, req, ret, buf, werr, pre>>

\* return nil; defer s.mu.Unlock()
UpdateUnlock(t) ==
    /\ pc[t] = "Update_Unlock"
    /\ Unlock(t)
    /\ Return(t)
    /\ UNCHANGED <<period, size, recorder>>

\* ------------------------------------------------------------ specification

Next ==
    \E t \in Callers :
        \/ Call(t)
        \/ StatusRLock(t)
        \/ StatusEnabled(t)
        \/ StatusPeriod(t)
        \/ StatusSize(t)
        \/ StatusRUnlock(t)
        \/ StartLock(t)
        \/ StartEnabled(t)
        \/ StartSetPeriod(t)
        \/ StartSetSize(t)
        \/ StartStart(t)
        \/ StartUnlock(t)
        \/ StopLock(t)
        \/ StopEnabled(t)
        \/ StopStop(t)
        \/ StopUnlock(t)
        \/ SnapshotRLock(t)
        \/ SnapshotEnabled(t)
        \/ SnapshotWriteTo(t)
        \/ SnapshotWriting(t)
        \/ SnapshotResult(t)
        \/ SnapshotRUnlock(t)
        \/ UpdateLock(t)
        \/ UpdatePeriod(t)
        \/ UpdatePushPeriod(t)
        \/ UpdateSize(t)
        \/ UpdatePushSize(t)
        \/ UpdateUnlock(t)

Spec == Init /\ [][Next]_vars

\* ------------------------------------------------------------------ codec
\* The JSON form of a size (example/cli/main.go, the codec half of the
\* file).  A Go string is a sequence of one-character strings.

Digits == <<"0", "1", "2", "3", "4", "5", "6", "7", "8", "9">>

DigitSet == {Digits[i] : i \in 1..10}

DigitVal(c) == (CHOOSE i \in 1..10 : Digits[i] = c) - 1

\* fmt.Sprintf("%d", n)
RECURSIVE Itoa(_)
Itoa(n) ==
    IF n < 0 THEN <<"-">> \o Itoa(0 - n)
    ELSE IF n < 10 THEN <<Digits[n + 1]>>
    ELSE Itoa(n \div 10) \o <<Digits[(n % 10) + 1]>>

\* The value of a run of decimal digits.
RECURSIVE ParseDigits(_)
ParseDigits(b) ==
    IF b = <<>> THEN 0
    ELSE ParseDigits(SubSeq(b, 1, Len(b) - 1)) * 10 + DigitVal(b[Len(b)])

\* The result of a parse: (value, err == nil).
Parsed(v) == [ok |-> TRUE, val |-> v]

ParseFailed == [ok |-> FALSE, val |-> 0]

\* strconv.Atoi: an optional sign, then one or more decimal digits.
Atoi(s) ==
    LET signed == s # <<>> /\ s[1] \in {"+", "-"}
        body == IF signed THEN Tail(s) ELSE s
    IN  IF body = <<>> \/ \E i \in 1..Len(body) : body[i] \notin DigitSet
        THEN ParseFailed
        ELSE IF signed /\ s[1] = "-" THEN Parsed(0 - ParseDigits(body))
        ELSE Parsed(ParseDigits(body))

\* strings.TrimSpace
TrimSpace(s) ==
    LET black == {i \in 1..Len(s) : s[i] # " "}
    IN  IF black = {} THEN <<>>
        ELSE SubSeq(s, CHOOSE i \in black : \A j \in black : i <= j,
                       CHOOSE i \in black : \A j \in black : i >= j)

\* strings.HasSuffix
HasSuffix(s, suffix) ==
    /\ Len(s) >= Len(suffix)
    /\ SubSeq(s, Len(s) - Len(suffix) + 1, Len(s)) = suffix

\* strings.TrimSuffix
TrimSuffix(s, suffix) ==
    IF HasSuffix(s, suffix) THEN SubSeq(s, 1, Len(s) - Len(suffix)) ELSE s

\* Mutant of formatMemoryUnits: rounds to the nearest unit.
formatMemoryUnitsNearest(s) ==
    IF s > 1024 * 1024
    THEN Itoa((s + 512 * 1024) \div (1024 * 1024)) \o <<"M", "B">>
    ELSE IF s > 1024
    THEN Itoa((s + 512) \div 1024) \o <<"K", "B">>
    ELSE Itoa(s) \o <<"B">>

\* formatMemoryUnits(s int) string
formatMemoryUnits(s) ==
    IF s > 1024 * 1024
    THEN Itoa(s \div (1024 * 1024)) \o <<"M", "B">>
    ELSE IF s > 1024
    THEN Itoa(s \div 1024) \o <<"K", "B">>
    ELSE Itoa(s) \o <<"B">>

\* The "size" member written by (*StatusResponse).MarshalJSON.
MarshalSize(n) ==
    IF n # 0 THEN formatMemoryUnits(n) ELSE <<"0", "B">>

\* convertMemoryUnits(s string, mult int) (int, error)
convertMemoryUnits(s, mult) ==
    LET r == Atoi(s)
    IN  IF ~r.ok THEN ParseFailed ELSE Parsed(r.val * mult)

\* Mutant of parseUnitsBytes: the suffix B is tried first.
parseUnitsBytesBFirst(s0) ==
    LET s == TrimSpace(s0)
    IN  IF HasSuffix(s, <<"B">>)
        THEN Atoi(TrimSuffix(s, <<"B">>))
        ELSE IF HasSuffix(s, <<"M", "B">>)
        THEN convertMemoryUnits(TrimSuffix(s, <<"M", "B">>), 1024 * 1024)
        ELSE IF HasSuffix(s, <<"K", "B">>)
        THEN convertMemoryUnits(TrimSuffix(s, <<"K", "B">>), 1024)
        ELSE Atoi(s)

\* parseUnitsBytes(s string) (int, error)
parseUnitsBytes(s0) ==
    LET s == TrimSpace(s0)
    IN  IF HasSuffix(s, <<"M", "B">>)
        THEN convertMemoryUnits(TrimSuffix(s, <<"M", "B">>), 1024 * 1024)
        ELSE IF HasSuffix(s, <<"K", "B">>)
        THEN convertMemoryUnits(TrimSuffix(s, <<"K", "B">>), 1024)
        ELSE IF HasSuffix(s, <<"B">>)
        THEN Atoi(TrimSuffix(s, <<"B">>))
        ELSE Atoi(s)

\* The sizes handed to the encoder: a*1MB + b*1KB + c for small and for
\* largest coefficients, so that every unit boundary is among them.
Coefs == (0..MaxCoef) \cup {1023}

EncSizes == {a * 1024 * 1024 + b * 1024 + c : a, b, c \in Coefs}

\* The texts handed to the decoder: every string of at most MaxLen of
\* these characters.
Chars == {"0", "1", "9", "+", "-", " ", "M", "K", "B", "x"}

DecTexts == UNION {[1..k -> Chars] : k \in 0..MaxLen}

CodecInit ==
    /\ InitService
    /\ Idle
    /\ http = [t \in Callers |-> NoHttp]
    /\ Constructed
    /\ \/ \E n \in EncSizes : codec = [NoCodec EXCEPT !.op = "encode", !.size = n]
       \/ \E s \in DecTexts : codec = [NoCodec EXCEPT !.op = "decode", !.text = s]

\* MarshalJSON writes the size.
Marshal ==
    /\ codec.op = "encode" /\ codec.stage = 0
    /\ codec' = [codec EXCEPT !.stage = 1, !.enc = MarshalSize(codec.size)]
    /\ UNCHANGED <<svars, http, ovars>>

\* UnmarshalJSON reads back what MarshalJSON wrote.
Reparse ==
    /\ codec.op = "encode" /\ codec.stage = 1
    /\ codec' = [codec EXCEPT !.stage = 2, !.dec = parseUnitsBytes(codec.enc)]
    /\ UNCHANGED <<svars, http, ovars>>

\* MarshalJSON writes the size that was read back.
Remarshal ==
    /\ codec.op = "encode" /\ codec.stage = 2 /\ codec.dec.ok
    /\ codec' = [codec EXCEPT !.stage = 3, !.enc2 = MarshalSize(codec.dec.val)]
    /\ UNCHANGED <<svars, http, ovars>>

\* UnmarshalJSON reads a size.
Unmarshal ==
    /\ codec.op = "decode" /\ codec.stage = 0
    /\ codec' = [codec EXCEPT !.stage = 1, !.dec = parseUnitsBytes(codec.text)]
    /\ UNCHANGED <<svars, http, ovars>>

CodecNext == Marshal \/ Reparse \/ Remarshal \/ Unmarshal

CodecSpec == CodecInit /\ [][CodecNext]_vars

\* --------------------------------------------------------------- handlers
\* The HTTP handlers (flightrecorder.go, handleStatus .. handleUpdate).  A
\* caller is now a goroutine of the HTTP server running one handler; the
\* handler calls the Service method, whose steps are the ones above, and
\* writes its response when the method returns.  The response stays in
\* http[t] until the goroutine serves its next request.

\* r.Method
Methods == {"GET", "POST"}

StatusOK == 200

StatusBadRequest == 400

StatusMethodNotAllowed == 405

StatusInternalServerError == 500

\* The texts of "period", with what time.ParseDuration makes of them (in
\* milliseconds).
PeriodTexts == {"2s", "2x"}

ParseDuration(s) ==
    CASE s = "1s" -> Parsed(1000)
      [] s = "2s" -> Parsed(2000)
      [] OTHER -> ParseFailed

\* The texts of "size".
SizeTexts == {<<"1", "M", "B">>, <<"-", "1">>, <<"x">>}

\* The bodies of a request to update: not a JSON object of strings, or an
\* object with each of "period" and "size" absent or a string.
Malformed == [json |-> "malformed", period |-> NilPtr, size |-> NilPtr]

Payloads ==
    {Malformed} \cup
    [json : {"object"},
     period : {NilPtr} \cup {Ptr(x) : x \in PeriodTexts},
     size : {NilPtr} \cup {Ptr(x) : x \in SizeTexts}]

\* The errors of UnmarshalJSON.
ErrJSON == Error("json: cannot unmarshal", Nil)

ErrInvalidPeriod == Error("invalid period", Nil)

ErrInvalidSize == Error("invalid size", Nil)

\* (u *UpdateRequest) UnmarshalJSON(data): the error returned and what u
\* holds afterwards.
UnmarshalJSON(u, data) ==
    IF data.json # "object" THEN [err |-> ErrJSON, u |-> u]
    ELSE
        LET u1 == [u EXCEPT !.Period = NilPtr]
            d == IF data.period # NilPtr THEN ParseDuration(Deref(data.period)) ELSE ParseFailed
            n == IF data.size # NilPtr THEN parseUnitsBytes(Deref(data.size)) ELSE ParseFailed
            u2 == IF data.period # NilPtr /\ d.ok THEN [u1 EXCEPT !.Period = Ptr(d.val)] ELSE u1
            u3 == IF data.size # NilPtr /\ n.ok THEN [u2 EXCEPT !.Size = Ptr(n.val)] ELSE u2
        IN  IF data.period # NilPtr /\ ~d.ok THEN [err |-> ErrInvalidPeriod, u |-> u1]
            ELSE IF data.size # NilPtr /\ ~n.ok THEN [err |-> ErrInvalidSize, u |-> u2]
            ELSE [err |-> NoError, u |-> u3]

\* The handler served, its request body, the decoded request, and the
\* response: its status code and the error it reports.
Serving(h) == [NoHttp EXCEPT !.handler = h]

\* http.Error(w, "Method not allowed", http.StatusMethodNotAllowed)
MethodNotAllowed(t, h) ==
    /\ http' = [http EXCEPT ![t] = [Serving(h) EXCEPT !.code = StatusMethodNotAllowed]]
    /\ UNCHANGED <<pc, fresh>>

\* The handler calls the Service method that starts at l.
Invoke(t, h, l) ==
    /\ Jump(t, l)
    /\ http' = [http EXCEPT ![t] = Serving(h)]

\* The Service method has returned err; the handler writes a response with
\* the code for failure if err != nil, and with the code for success otherwise.
Write(t, failure, success) ==
    /\ Jump(t, "idle")
    /\ Drop(t)
    /\ http' = [http EXCEPT ![t].code = IF ret[t].err # NoError THEN failure ELSE success,
                            ![t].err = ret[t].err]

handleStatus(t) ==
    /\ pc[t] = "idle"
    /\ \E m \in Methods :
         IF m # "GET" THEN MethodNotAllowed(t, "handleStatus")
         ELSE Invoke(t, "handleStatus", "Status_RLock")
    /\ UNCHANGED <<period, size, recorder, mu, req, ret, buf, werr, pre, calls, codec, ovars>>

\* s.Status() returns; json.NewEncoder(w).Encode(status)
handleStatusWrite(t) ==
    /\ pc[t] = "Status_RUnlock"
    /\ RUnlock(t)
    /\ Write(t, StatusOK, StatusOK)
    /\ UNCHANGED <<period, size, recorder, codec, ovars>>

handleStart(t) ==
    /\ pc[t] = "idle"
    /\ \E m \in Methods :
         IF m # "POST" THEN MethodNotAllowed(t, "handleStart")
         ELSE Invoke(t, "handleStart", "Start_Lock")
    /\ UNCHANGED <<period, size, recorder, mu, req, ret, buf, werr, pre, calls, codec, ovars>>

\* s.Start() returns; w.WriteHeader(...)
handleStartWrite(t) ==
    /\ pc[t] = "Start_Unlock"
    /\ Unlock(t)
    /\ Write(t, StatusBadRequest, StatusOK)
    /\ UNCHANGED <<period, size, recorder, codec, ovars>>

handleStop(t) ==
    /\ pc[t] = "idle"
    /\ \E m \in Methods :
         IF m # "POST" THEN MethodNotAllowed(t, "handleStop")
         ELSE Invoke(t, "handleStop", "Stop_Lock")
    /\ UNCHANGED <<period, size, recorder, mu, req, ret, buf, werr, pre, calls, codec, ovars>>

\* s.Stop() returns; w.WriteHeader(...)
handleStopWrite(t) ==
    /\ pc[t] = "Stop_Unlock"
    /\ Unlock(t)
    /\ Write(t, StatusBadRequest, StatusOK)
    /\ UNCHANGED <<period, size, recorder, codec, ovars>>

handleSnapshot(t) ==
    /\ pc[t] = "idle"
    /\ \E m \in Methods :
         IF m # "GET" THEN MethodNotAllowed(t, "handleSnapshot")
         ELSE Invoke(t, "handleSnapshot", "Snapshot_RLock")
    /\ UNCHANGED <<period, size, recorder, mu, req, ret, buf, werr, pre, calls, codec, ovars>>

\* s.Snapshot() returns; w.WriteHeader(...) or w.Write(snapshot)
handleSnapshotWrite(t) ==
    /\ pc[t] = "Snapshot_RUnlock"
    /\ RUnlock(t)
    /\ Write(t, StatusInternalServerError, StatusOK)
    /\ UNCHANGED <<period, size, recorder, codec, ovars>>

\* Mutant of handleUpdate: Update is called with whatever was decoded.
handleUpdateAnyway(t) ==
    /\ pc[t] = "idle"
    /\ \E m \in Methods :
         IF m # "POST" THEN MethodNotAllowed(t, "handleUpdate")
         ELSE \E data \in Payloads :
                LET d == UnmarshalJSON(NoRequest, data)
                IN  /\ Jump(t, "Update_Lock")
                    /\ http' = [http EXCEPT ![t] =
                                  [Serving("handleUpdate") EXCEPT !.payload = data, !.req = d.u]]
    /\ UNCHANGED <<period, size, recorder, mu, req, ret, buf, werr, pre, calls, codec, ovars>>

\* var req UpdateRequest; json.NewDecoder(r.Body).Decode(&req); s.Update(req)
handleUpdate(t) ==
    /\ pc[t] = "idle"
    /\ \E m \in Methods :
         IF m # "POST" THEN MethodNotAllowed(t, "handleUpdate")
         ELSE \E data \in Payloads :
                LET d == UnmarshalJSON(NoRequest, data)
                IN  IF d.err # NoError
                    THEN /\ http' = [http EXCEPT ![t] =
                                       [Serving("handleUpdate") EXCEPT
                                           !.payload = data,
                                           !.code = StatusBadRequest,
                                           !.err = d.err]]
                         /\ UNCHANGED <<pc, fresh>>
                    ELSE /\ Jump(t, "Update_Lock")
                         /\ http' = [http EXCEPT ![t] =
                                       [Serving("handleUpdate") EXCEPT !.payload = data, !.req = d.u]]
    /\ UNCHANGED <<period, size, recorder, mu, req, ret, buf, werr, pre, calls, codec, ovars>>

\* s.Update(req): the argument is the decoded request.
handleUpdateCall(t) == UpdateLockWith(t, {http[t].req})

\* s.Update(req) returns; w.WriteHeader(...)
handleUpdateWrite(t) ==
    /\ pc[t] = "Update_Unlock"
    /\ Unlock(t)
    /\ Write(t, StatusBadRequest, StatusOK)
    /\ UNCHANGED <<period, size, recorder, codec, ovars>>

HttpInit ==
    /\ InitService
    /\ Idle
    /\ codec = NoCodec
    /\ http = [t \in Callers |-> NoHttp]
    /\ Constructed

HttpNext ==
    \E t \in Callers :
        \/ handleStatus(t)
        \/ StatusRLock(t)
        \/ StatusEnabled(t)
        \/ StatusPeriod(t)
        \/ StatusSize(t)
        \/ handleStatusWrite(t)
        \/ handleStart(t)
        \/ StartLock(t)
        \/ StartEnabled(t)
        \/ StartSetPeriod(t)
        \/ StartSetSize(t)
        \/ StartStart(t)
        \/ handleStartWrite(t)
        \/ handleStop(t)
        \/ StopLock(t)
        \/ StopEnabled(t)
        \/ StopStop(t)
        \/ handleStopWrite(t)
        \/ handleSnapshot(t)
        \/ SnapshotRLock(t)
        \/ SnapshotEnabled(t)
        \/ SnapshotWriteTo(t)
        \/ SnapshotWriting(t)
        \/ SnapshotResult(t)
        \/ handleSnapshotWrite(t)
        \/ handleUpdate(t)
        \/ handleUpdateCall(t)
        \/ UpdatePeriod(t)
        \/ UpdatePushPeriod(t)
        \/ UpdateSize(t)
        \/ UpdatePushSize(t)
        \/ handleUpdateWrite(t)

HttpSpec == HttpInit /\ [][HttpNext]_vars

\* ------------------------------------------------------------ InitService
\* var once sync.Once; var service *Service; func InitService() *Service.
\* Here the process starts before any call of InitService: there is no
\* Service yet, and a caller can use one only once InitService has returned
\* it.  once.Do(f) is sync.Once's: a check of done without the lock, then,
\* under the mutex of once, a second check, f, and done = true.

\* The fields of a Service that does not exist yet.
NoService ==
    /\ period = 0
    /\ size = 0
    /\ recorder = [period |-> 0, size |-> 0, enabled |-> FALSE, snapshotting |-> {}]

OnceInit ==
    /\ NoService
    /\ Idle
    /\ codec = NoCodec
    /\ http = [t \in Callers |-> NoHttp]
    /\ once = [done |-> FALSE, m |-> {}]
    /\ service = NilService
    /\ held = [t \in Callers |-> NilService]
    /\ built = 0

\* A step of InitService.
Step(t, l) ==
    /\ Jump(t, l)
    /\ UNCHANGED <<mu, req, ret, buf, werr, pre, calls, codec, http>>

\* A caller calls InitService().
InitServiceCall(t) ==
    /\ pc[t] = "idle"
    /\ Step(t, "Once_Do")
    /\ UNCHANGED <<period, size, recorder, ovars>>

\* once.Do: if o.done.Load() == 0 { o.doSlow(f) }
OnceDo(t) ==
    /\ pc[t] = "Once_Do"
    /\ Step(t, IF once.done THEN "InitService_Return" ELSE "Once_Lock")
    /\ UNCHANGED <<period, size, recorder, ovars>>

\* doSlow: o.m.Lock()
OnceLock(t) ==
    /\ pc[t] = "Once_Lock"
    /\ once.m = {}
    /\ once' = [once EXCEPT !.m = {t}]
    /\ Step(t, "Once_Slow")
    /\ UNCHANGED <<period, size, recorder, service, held, built>>

\* Mutant of OnceSlow: done is not looked at again under the lock.
OnceSlowUnchecked(t) ==
    /\ pc[t] = "Once_Slow"
    /\ Step(t, "Once_F")
    /\ UNCHANGED <<period, size, recorder, ovars>>

\* doSlow: if o.done.Load() == 0 { defer o.done.Store(1); f() }
OnceSlow(t) ==
    /\ pc[t] = "Once_Slow"
    /\ Step(t, IF once.done THEN "Once_Unlock" ELSE "Once_F")
    /\ UNCHANGED <<period, size, recorder, ovars>>

\* f: service = &Service{recorder: trace.NewFlightRecorder(), period: 1s, size: 64MB}
OnceF(t) ==
    /\ pc[t] = "Once_F"
    /\ built < MaxBuilt
    /\ period' = DefaultPeriod
    /\ size' = DefaultSize
    /\ recorder' = NewFlightRecorder
    /\ service' = built + 1
    /\ built' = built + 1
    /\ Step(t, "Once_Done")
    /\ UNCHANGED <<once, held>>

\* deferred: o.done.Store(1)
OnceDone(t) ==
    /\ pc[t] = "Once_Done"
    /\ once' = [once EXCEPT !.done = TRUE]
    /\ Step(t, "Once_Unlock")
    /\ UNCHANGED <<period, size, recorder, service, held, built>>

\* deferred: o.m.Unlock()
OnceUnlock(t) ==
    /\ pc[t] = "Once_Unlock"
    /\ once' = [once EXCEPT !.m = {}]
    /\ Step(t, "InitService_Return")
    /\ UNCHANGED <<period, size, recorder, service, held, built>>

\* return service
InitServiceReturn(t) ==
    /\ pc[t] = "InitService_Return"
    /\ held' = [held EXCEPT ![t] = service]
    /\ Step(t, "idle")
    /\ UNCHANGED <<period, size, recorder, once, service, built>>

\* A caller invokes an operation of the Service it holds.
ServiceCall(t) ==
    /\ held[t] # NilService
    /\ Call(t)

OnceNext ==
    \E t \in Callers :
        \/ InitServiceCall(t)
        \/ OnceDo(t)
        \/ OnceLock(t)
        \/ OnceSlow(t)
        \/ OnceF(t)
        \/ OnceDone(t)
        \/ OnceUnlock(t)
        \/ InitServiceReturn(t)
        \/ ServiceCall(t)
        \/ StatusRLock(t)
        \/ StatusEnabled(t)
        \/ StatusPeriod(t)
        \/ StatusSize(t)
        \/ StatusRUnlock(t)
        \/ StartLock(t)
        \/ StartEnabled(t)
        \/ StartSetPeriod(t)
        \/ StartSetSize(t)
        \/ StartStart(t)
        \/ StartUnlock(t)
        \/ StopLock(t)
        \/ StopEnabled(t)
        \/ StopStop(t)
        \/ StopUnlock(t)
        \/ SnapshotRLock(t)
        \/ SnapshotEnabled(t)
        \/ SnapshotWriteTo(t)
        \/ SnapshotWriting(t)
        \/ SnapshotResult(t)
        \/ SnapshotRUnlock(t)
        \/ UpdateLock(t)
        \/ UpdatePeriod(t)
        \/ UpdatePushPeriod(t)
        \/ UpdateSize(t)
        \/ UpdatePushSize(t)
        \/ UpdateUnlock(t)

OnceSpec == OnceInit /\ [][OnceNext]_vars

\* ------------------------------------------------------- a reused request
\* A client of the package keeps one UpdateRequest, decodes one body after
\* another into it with UnmarshalJSON, and passes it to Update (by value)
\* after a decode that succeeded.  The request is not shared while a call it
\* was passed to is running: it is decoded into between calls.

DecodeInit ==
    /\ InitService
    /\ Idle
    /\ http = [t \in Callers |-> NoHttp]
    /\ Constructed
    /\ codec = [NoCodec EXCEPT !.op = "unmarshal"]

\* var req UpdateRequest: a new, zero request replaces the one in use.
NewRequest ==
    /\ codec.op = "unmarshal" /\ codec.stage = 1
    /\ \A t \in Callers : pc[t] = "idle"
    /\ codec' = [codec EXCEPT !.stage = 0, !.u = NoRequest, !.data = NoPayload, !.err = NoError]
    /\ UNCHANGED <<svars, http, ovars>>

\* err := json.Unmarshal(body, &req), that is req.UnmarshalJSON(body)
Decode ==
    /\ codec.op = "unmarshal"
    /\ \A t \in Callers : pc[t] = "idle"
    /\ \E data \in Payloads :
         LET d == UnmarshalJSON(codec.u, data)
         IN  codec' = [codec EXCEPT !.stage = 1, !.data = data, !.u = d.u, !.err = d.err]
    /\ UNCHANGED <<svars, http, ovars>>

\* s.Update(req) with the request as decoded last.
Apply(t) ==
    /\ pc[t] = "idle"
    /\ codec.op = "unmarshal" /\ codec.stage = 1 /\ codec.err = NoError
    /\ Jump(t, "Update_Lock")
    /\ http' = [http EXCEPT ![t] = [Serving("client") EXCEPT !.payload = codec.data, !.req = codec.u]]
    /\ UNCHANGED <<period, size, recorder, mu, req, ret, buf, werr, pre, calls, codec, ovars>>

DecodeNext ==
    \/ NewRequest
    \/ Decode
    \/ \E t \in Callers :
        \/ Apply(t)
        \/ handleUpdateCall(t)
        \/ UpdatePeriod(t)
        \/ UpdatePushPeriod(t)
        \/ UpdateSize(t)
        \/ UpdatePushSize(t)
        \/ UpdateUnlock(t)

DecodeSpec == DecodeInit /\ [][DecodeNext]_vars

\* ----------------------------------------------------------------- fairness
\* The scheduling the claims about completion assume.  A goroutine that
\* can take its next statement takes it (the capability's calls return).  A
\* goroutine waiting for the lock gets it if it is free again and again:
\* sync.RWMutex hands the lock to waiting readers when a writer leaves, and
\* sync.Mutex hands it to a writer that has waited (starvation mode).

\* Caller t acquires the lock.
Acquire(t) ==
    \/ StatusRLock(t)
    \/ StartLock(t)
    \/ StopLock(t)
    \/ SnapshotRLock(t)
    \/ UpdateLock(t)

\* Caller t takes a statement inside its operation, or returns.
Proceed(t) ==
    \/ StatusEnabled(t)
    \/ StatusPeriod(t)
    \/ StatusSize(t)
    \/ StatusRUnlock(t)
    \/ StartEnabled(t)
    \/ StartSetPeriod(t)
    \/ StartSetSize(t)
    \/ StartStart(t)
    \/ StartUnlock(t)
    \/ StopEnabled(t)
    \/ StopStop(t)
    \/ StopUnlock(t)
    \/ SnapshotEnabled(t)
    \/ SnapshotWriteTo(t)
    \/ SnapshotWriting(t)
    \/ SnapshotResult(t)
    \/ SnapshotRUnlock(t)
    \/ UpdatePeriod(t)
    \/ UpdatePushPeriod(t)
    \/ UpdateSize(t)
    \/ UpdatePushSize(t)
    \/ UpdateUnlock(t)

Fairness == \A t \in Callers : WF_vars(Proceed(t)) /\ SF_vars(Acquire(t))

LiveSpec == Init /\ [][Next]_vars /\ Fairness

\* ------------------------------------------------------------------ claims

\* C1: whenever the recorder is enabled and no Start, Stop or Update is
\* inside its critical section, the capability's period and size are the
\* stored Configuration's: no accepted change is lost.
C1_RunningConfigInEffect ==
    (Enabled /\ \A t \in Callers : ~InWrite(t))
        => (recorder.period = period /\ recorder.size = size)

\* C1 witness: running, no mutation in progress, and both stored fields
\* differ from the defaults they were constructed with.
C1_Witness ==
    /\ Enabled
    /\ \A t \in Callers : ~InWrite(t)
    /\ period # DefaultPeriod
    /\ size # DefaultSize
    /\ recorder.period = period
    /\ recorder.size = size

\* C2: Start on a running service returns the already-running error, Stop
\* on a stopped one the not-running error, and either leaves Configuration,
\* enabled flag and capability as they were, with no capability call made.
C2_WrongStateRejected ==
    \A t \in Callers :
        /\ (pc[t] = "Start_Unlock" /\ pre[t].enabled)
              => (ret[t].err = ErrAlreadyRunning /\ Snap = pre[t] /\ calls[t] = <<>>)
        /\ (pc[t] = "Stop_Unlock" /\ ~pre[t].enabled)
              => (ret[t].err = ErrNotRunning /\ Snap = pre[t] /\ calls[t] = <<>>)

\* C2 witness: a Start that found the recorder running is about to return,
\* while the Configuration is no longer the default one.
C2_Witness ==
    \E t \in Callers :
        /\ pc[t] = "Start_Unlock"
        /\ pre[t].enabled
        /\ ret[t].err = ErrAlreadyRunning
        /\ period # DefaultPeriod

\* C3: a Start that found the recorder stopped has called SetPeriod and
\* SetSize with the stored values, both before Start; if Start succeeded the
\* recorder is enabled with exactly the stored Configuration.
C3_StartPushesThenStarts ==
    \A t \in Callers :
        (pc[t] = "Start_Unlock" /\ ~pre[t].enabled) =>
            /\ Len(calls[t]) = 3
            /\ {calls[t][1], calls[t][2]}
                  = {<<"SetPeriod", pre[t].period>>, <<"SetSize", pre[t].size>>}
            /\ calls[t][3] = <<"Start", 0>>
            /\ period = pre[t].period
            /\ size = pre[t].size
            /\ ret[t].err = NoError
                  => (Enabled /\ recorder.period = period /\ recorder.size = size)

\* C3 witness: a successful Start of a stopped recorder whose period was
\* updated while stopped (stored and capability period differed on entry).
C3_Witness ==
    \E t \in Callers :
        /\ pc[t] = "Start_Unlock"
        /\ ~pre[t].enabled
        /\ ret[t].err = NoError
        /\ pre[t].period # DefaultPeriod
        /\ pre[t].rperiod # pre[t].period
        /\ Enabled

\* C4, as claimed: a Start whose capability start() failed leaves the
\* service stopped, the Configuration unchanged and the capability's period
\* and size as they were before the call.
C4_FailedStartUntouched ==
    \A t \in Callers :
        (pc[t] = "Start_Unlock" /\ ~pre[t].enabled /\ ret[t].err = ErrCapStart)
            => Snap = pre[t]

\* C4, amended: a Start whose capability start() failed leaves the service
\* stopped and the Configuration unchanged, and the capability holds the
\* stored period and size (both were pushed before the failed start()).
C4_FailedStartPushed ==
    \A t \in Callers :
        (pc[t] = "Start_Unlock" /\ ~pre[t].enabled /\ ret[t].err = ErrCapStart) =>
            /\ ~Enabled
            /\ period = pre[t].period
            /\ size = pre[t].size
            /\ recorder.period = period
            /\ recorder.size = size

\* C4 witness: a failed Start of a stopped recorder whose capability held
\* another period and size than the stored ones on entry.
C4_Witness ==
    \E t \in Callers :
        /\ pc[t] = "Start_Unlock"
        /\ ~pre[t].enabled
        /\ ret[t].err = ErrCapStart
        /\ pre[t].rperiod # pre[t].period
        /\ pre[t].rsize # pre[t].size

\* C5: Update never fails; on its return each present field of the request
\* is the stored value and each absent one left the stored value unchanged;
\* a Status then reports the stored values.
C5_UpdateStores ==
    LET Updated(old, field) == IF field # NilPtr THEN Deref(field) ELSE old
    IN
    \A t \in Callers :
        /\ pc[t] = "Update_Unlock" =>
              /\ ret[t].err = NoError
              /\ period = Updated(pre[t].period, req[t].Period)
              /\ size = Updated(pre[t].size, req[t].Size)
        /\ pc[t] = "Status_RUnlock" =>
              /\ ret[t].status.Period = period
              /\ ret[t].status.Size = size
              /\ ret[t].err = NoError

\* C5 witness: an Update carrying period 0 and no size, on a Configuration
\* whose period was not 0, is about to return.
C5_Witness ==
    \E t \in Callers :
        /\ pc[t] = "Update_Unlock"
        /\ req[t].Period = Ptr(0)
        /\ req[t].Size = NilPtr
        /\ pre[t].period # 0
        /\ period = 0
        /\ size = pre[t].size

\* C6: Update calls SetPeriod / SetSize with the new value exactly for the
\* present fields and only while the recorder is running; stopped, it calls
\* no setter and leaves the capability's period and size unchanged.
C6_UpdatePushesLiveOnly ==
    LET Updated(old, field) == IF field # NilPtr THEN Deref(field) ELSE old
        Pushes(r) ==
            (IF r.Period # NilPtr THEN << <<"SetPeriod", Deref(r.Period)>> >> ELSE <<>>)
            \o (IF r.Size # NilPtr THEN << <<"SetSize", Deref(r.Size)>> >> ELSE <<>>)
    IN
    \A t \in Callers :
        pc[t] = "Update_Unlock" =>
            /\ calls[t] = IF pre[t].enabled THEN Pushes(req[t]) ELSE <<>>
            /\ Enabled = pre[t].enabled
            /\ recorder.period = IF pre[t].enabled
                                   THEN Updated(pre[t].rperiod, req[t].Period)
                                   ELSE pre[t].rperiod
            /\ recorder.size = IF pre[t].enabled
                                 THEN Updated(pre[t].rsize, req[t].Size)
                                 ELSE pre[t].rsize

\* C6 witness: an Update of the period alone, on a running recorder, has
\* pushed the new period.
C6_Witness ==
    \E t \in Callers :
        /\ pc[t] = "Update_Unlock"
        /\ pre[t].enabled
        /\ req[t].Period # NilPtr
        /\ req[t].Size = NilPtr
        /\ Deref(req[t].Period) # pre[t].rperiod
        /\ calls[t] = << <<"SetPeriod", Deref(req[t].Period)>> >>

\* C7: while a Start, Stop or Update is inside its critical section no
\* other operation is inside its own.
C7_MutualExclusion ==
    \A t, u \in Callers :
        (t # u /\ InWrite(t)) => (~InWrite(u) /\ ~InRead(u))

\* C7 witness: an Update is mid-way (period stored, size not yet) while
\* another caller waits at RLock.
C7_Witness ==
    \E t, u \in Callers :
        /\ t # u
        /\ pc[t] = "Update_Size"
        /\ req[t].Period # NilPtr
        /\ pc[u] \in {"Status_RLock", "Snapshot_RLock"}

\* C8: the (period, size) a Status returns is the Configuration that stood
\* when it acquired the lock and still stands when it returns: one whole
\* Configuration, never half of an Update.
C8_NoTornRead ==
    \A t \in Callers :
        pc[t] = "Status_RUnlock" =>
            /\ <<ret[t].status.Period, ret[t].status.Size>> = <<pre[t].period, pre[t].size>>
            /\ <<ret[t].status.Period, ret[t].status.Size>> = <<period, size>>
            /\ \A u \in Callers : ~InWrite(u)

\* C8 witness: a Status holding its result while an Update has requested
\* the lock and waits for it.
C8_Witness ==
    \E t, u \in Callers :
        /\ pc[t] = "Status_RUnlock"
        /\ pc[u] = "Update_LockWait"
        /\ ret[t].status.Period # DefaultPeriod
        /\ ret[t].status.Size # DefaultSize

\* C9: a Snapshot of a stopped recorder returns the not-running error and
\* never calls WriteTo; of a running one whose WriteTo succeeded, it returns
\* the bytes WriteTo put into the buffer; in no case does it change the
\* enabled flag or the Configuration.
C9_SnapshotResult ==
    \A t \in Callers :
        pc[t] = "Snapshot_RUnlock" =>
            /\ ~pre[t].enabled =>
                  (ret[t].err = ErrNotRunning /\ ret[t].bytes = NoBytes /\ calls[t] = <<>>)
            /\ (pre[t].enabled /\ werr[t] = NoError) =>
                  (ret[t].err = NoError /\ ret[t].bytes = buf[t]
                      /\ calls[t] = << <<"WriteTo", 0>> >>)
            /\ Enabled = pre[t].enabled
            /\ period = pre[t].period
            /\ size = pre[t].size

\* C9 witness: a Snapshot of a running recorder returns two bytes.
C9_Witness ==
    \E t \in Callers :
        /\ pc[t] = "Snapshot_RUnlock"
        /\ pre[t].enabled
        /\ ret[t].err = NoError
        /\ buf[t] = <<7, 9>>
        /\ ret[t].bytes = <<7, 9>>

\* C10: a Snapshot whose WriteTo failed returns the in-progress error if
\* and only if the capability returned ErrSnapshotActive, and otherwise a
\* write failure wrapping the capability's error; the not-running,
\* in-progress and write-failed errors differ pairwise, and no error comes
\* with bytes.
C10_SnapshotErrors ==
    \A t \in Callers :
        pc[t] = "Snapshot_RUnlock" =>
            /\ (pre[t].enabled /\ werr[t] # NoError) =>
                  /\ (ret[t].err = ErrSnapshotInProgress) <=> (werr[t] = ErrSnapshotActive)
                  /\ werr[t] # ErrSnapshotActive =>
                        (ret[t].err = ErrWriteFailed(werr[t]) /\ ret[t].err.wraps = werr[t].msg)
                  /\ ret[t].err # ErrNotRunning
            /\ ret[t].err = ErrNotRunning => ~pre[t].enabled
            /\ ret[t].err # NoError => ret[t].bytes = NoBytes
            /\ Cardinality({ErrNotRunning.msg, ErrSnapshotInProgress.msg,
                            ErrWriteFailed(werr[t]).msg}) = 3

\* C10 witness: two concurrent Snapshots, one refused because the other's
\* export was active, the other failed part way with bytes in its buffer.
C10_Witness ==
    \E t, u \in Callers :
        /\ pc[t] = "Snapshot_RUnlock"
        /\ werr[t] = ErrSnapshotActive
        /\ ret[t].err = ErrSnapshotInProgress
        /\ pc[u] = "Snapshot_RUnlock"
        /\ werr[u] = ErrCapWrite
        /\ buf[u] # <<>>
        /\ ret[u].err = ErrWriteFailed(ErrCapWrite)
        /\ ret[u].bytes = NoBytes

\* C11: the service does not serialize readers.  A Snapshot or Status at
\* RLock proceeds whenever no writer holds or awaits the lock, whoever else
\* reads, and a Snapshot holding the lock may always call WriteTo: two
\* Snapshots can be inside WriteTo together, and a Snapshot beside a Status.
C11_ReadersNotSerialized ==
    \A t \in Callers :
        /\ (pc[t] = "Snapshot_RLock" /\ mu.w = {}) => ENABLED SnapshotRLock(t)
        /\ (pc[t] = "Status_RLock" /\ mu.w = {}) => ENABLED StatusRLock(t)
        /\ pc[t] = "Snapshot_WriteTo" => ENABLED SnapshotWriteTo(t)

\* C11 witness: both callers hold the shared lock; one Snapshot's WriteTo is
\* exporting while the other's WriteTo ran into it and was refused.
C11_Witness ==
    \E t, u \in Callers :
        /\ t # u
        /\ {t, u} \subseteq mu.r
        /\ pc[t] = "Snapshot_Writing"
        /\ recorder.snapshotting = {t}
        /\ pc[u] = "Snapshot_Result"
        /\ werr[u] = ErrSnapshotActive

\* C12: a Status that returns before any Start, Stop or Update was invoked
\* reports enabled = false, period = 1 s (1000 ms) and size = 64 MiB
\* (67108864 bytes); Status returns no error in any state.
C12_StatusAfterConstruction ==
    \A t \in Callers :
        pc[t] = "Status_RUnlock" =>
            /\ ret[t].err = NoError
            /\ fresh => ret[t].status = [Enabled |-> FALSE, Period |-> 1000, Size |-> 67108864]

\* C12 witness: on the freshly constructed service two Status calls hold
\* their results at once.
C12_Witness ==
    /\ fresh
    /\ \A t \in Callers : pc[t] = "Status_RUnlock"
    /\ \A t \in Callers : ret[t].status.Size = 64 * 1024 * 1024

\* C13: the encoder renders a size with the largest unit that divides it
\* evenly: a positive multiple of 1048576 as "<n/1048576>MB", any other
\* positive multiple of 1024 as "<n/1024>KB" (so 1048576 is "1MB" and 1024
\* is "1KB").
C13_LargestEvenUnit ==
    (codec.op = "encode" /\ codec.stage >= 1 /\ codec.size > 0) =>
        LET n == codec.size
        IN  /\ n % 1048576 = 0 => codec.enc = Itoa(n \div 1048576) \o <<"M", "B">>
            /\ (n % 1024 = 0 /\ n % 1048576 # 0) =>
                   codec.enc = Itoa(n \div 1024) \o <<"K", "B">>

\* C14: the encoder follows the threshold rule: above 1048576 the number of
\* whole megabytes with MB, else above 1024 the number of whole kilobytes
\* with KB, else the number itself with B; the magnitude written is a plain
\* decimal numeral, never rounded up.
C14_ThresholdRule ==
    (codec.op = "encode" /\ codec.stage >= 1) =>
        LET n == codec.size
            unit == IF n > 1048576 THEN 1048576 ELSE IF n > 1024 THEN 1024 ELSE 1
            suffix == IF n > 1048576 THEN <<"M", "B">>
                      ELSE IF n > 1024 THEN <<"K", "B">> ELSE <<"B">>
            e == codec.enc
            digits == SubSeq(e, 1, Len(e) - Len(suffix))
        IN  /\ Len(e) > Len(suffix)
            /\ SubSeq(e, Len(e) - Len(suffix) + 1, Len(e)) = suffix
            /\ \A i \in 1..Len(digits) : digits[i] \in DigitSet
            /\ Len(digits) > 1 => digits[1] # "0"
            /\ ParseDigits(digits) * unit <= n
            /\ n < (ParseDigits(digits) + 1) * unit

\* 1048577 has been written as 1MB, the remainder dropped.
C14_Witness ==
    /\ codec.op = "encode" /\ codec.stage = 1
    /\ codec.size = 1048577
    /\ codec.enc = <<"1", "M", "B">>

C16_SizeNonNegative ==
    /\ size >= 0
    /\ recorder.size >= 0
    /\ \A t \in Callers :
         /\ http[t].req.Size # NilPtr => Deref(http[t].req.Size) >= 0
         /\ pc[t] = "Status_RUnlock" => ret[t].status.Size >= 0

\* C17: decoding what the encoder wrote for n succeeds and gives n less
\* (n mod u), u the unit the encoder wrote (1 for B, 1024 for KB, 1048576
\* for MB): never more than n; and encoding that again gives the same text.
C17_RoundTripTruncates ==
    (codec.op = "encode" /\ codec.stage >= 2) =>
        LET n == codec.size
            e == codec.enc
            u == IF HasSuffix(e, <<"M", "B">>) THEN 1048576
                 ELSE IF HasSuffix(e, <<"K", "B">>) THEN 1024 ELSE 1
        IN  /\ codec.dec = [ok |-> TRUE, val |-> n - (n % u)]
            /\ codec.dec.val <= n
            /\ codec.stage = 3 => codec.enc2 = codec.enc

\* C18: a request to update whose body does not decode (not a JSON object
\* of strings, a period that is no duration, a size that is no size) is
\* answered 400 in the step that receives it, and that step changes
\* neither the stored configuration nor the capability, takes no lock and
\* enters no method of the Service, whatever the other field was; no
\* goroutine is ever inside Update on behalf of such a request.
C18_RejectedUpdateNotApplied ==
    /\ [](\A t \in Callers :
            LET p == http[t].payload
            IN  (/\ http[t].handler = "handleUpdate"
                 /\ \/ p.json = "malformed"
                    \/ p.period = Ptr("2x")
                    \/ p.size = Ptr(<<"x">>))
                => /\ pc[t] = "idle"
                   /\ http[t].code = StatusBadRequest
                   /\ http[t].err # NoError
                   /\ req[t] = NoRequest)
    /\ [][\A t \in Callers :
            LET p == http'[t].payload
            IN  (/\ http'[t] # http[t]
                 /\ http'[t].handler = "handleUpdate"
                 /\ \/ p.json = "malformed"
                    \/ p.period = Ptr("2x")
                    \/ p.size = Ptr(<<"x">>))
                => UNCHANGED <<period, size, recorder, mu, pc, req, calls>>]_vars

\* A request with a valid period and an unparsable size has been answered
\* 400 while the recorder runs; the period is not the one requested.
C18_Witness ==
    \E t \in Callers :
        /\ http[t].handler = "handleUpdate"
        /\ http[t].payload = [json |-> "object", period |-> Ptr("2s"), size |-> Ptr(<<"x">>)]
        /\ http[t].code = StatusBadRequest
        /\ http[t].err = ErrInvalidSize
        /\ recorder.enabled
        /\ period = DefaultPeriod
        /\ recorder.period = DefaultPeriod

\* C19: the errors reported to remote callers fall in four cases (invalid
\* input; conflicting state; resource busy; internal failure), and the
\* status code of a response tells the case: two error responses with the
\* same status code report errors of the same case, and the same error has
\* the same status code whichever handler reports it.
C19_FourResponseClasses ==
    \A t, u \in Callers :
        LET case(e) ==
                IF e \in {ErrJSON, ErrInvalidPeriod, ErrInvalidSize} THEN "invalid input"
                ELSE IF e \in {ErrAlreadyRunning, ErrNotRunning} THEN "conflicting state"
                ELSE IF e = ErrSnapshotInProgress THEN "resource busy"
                ELSE "internal failure"
        IN  (http[t].err # NoError /\ http[u].err # NoError) =>
                /\ http[t].code = http[u].code => case(http[t].err) = case(http[u].err)
                /\ http[t].err = http[u].err => http[t].code = http[u].code

\* C20: at most one Service is ever constructed, however the calls of
\* InitService race; once a call has completed the gate, one exists; every
\* call returns that one; and a step of InitService taken when a Service
\* exists leaves the global pointer and the Service's period, size and
\* recorder as they are.
C20_OneInstance ==
    /\ [](/\ built <= 1
          /\ service = built
          /\ once.done => built = 1
          /\ \A t \in Callers :
               /\ held[t] # NilService => held[t] = service
               /\ pc[t] = "InitService_Return" => service # NilService)
    /\ [][\A t \in Callers :
            (/\ pc[t] \in {"Once_Do", "Once_Lock", "Once_Slow", "Once_F",
                           "Once_Done", "Once_Unlock", "InitService_Return"}
             /\ pc'[t] # pc[t]
             /\ service # NilService)
            => UNCHANGED <<service, built, period, size, recorder>>]_vars

\* A call of InitService that entered the gate while another was
\* constructing completes after the Service has been started with a
\* changed size, and returns the same Service.
C20_Witness ==
    \E t, u \in Callers :
        /\ t # u
        /\ held[u] = 1
        /\ held[t] = NilService
        /\ pc[t] = "InitService_Return"
        /\ service = 1
        /\ recorder.enabled
        /\ size # DefaultSize

\* C21: after a decode that succeeded the request holds a period exactly
\* if the body had the key "period", and a size exactly if the body had the
\* key "size", whatever the request held before; so the request handed to
\* Update carries no field that the body decoded last did not have.
C21_AbsentIffOmitted ==
    /\ (codec.op = "unmarshal" /\ codec.stage = 1 /\ codec.err = NoError) =>
          /\ codec.u.Period = NilPtr <=> codec.data.period = NilPtr
          /\ codec.u.Size = NilPtr <=> codec.data.size = NilPtr
    /\ \A t \in Callers :
          http[t].handler = "client" =>
              /\ http[t].req.Period = NilPtr <=> http[t].payload.period = NilPtr
              /\ http[t].req.Size = NilPtr <=> http[t].payload.size = NilPtr

\* C22: under fair scheduling every operation invoked returns; a caller
\* holds the lock exactly while it is between its lock and its unlock (so
\* not after it returned, on whichever path), and the step that returns
\* gives up the lock it held; whenever some operation is in progress, some
\* caller in an operation can take a step; and a writer that has announced
\* itself gets the lock although readers keep arriving.
C22_CompletionAndRelease ==
    /\ \A t \in Callers : (pc[t] # "idle") ~> (pc[t] = "idle")
    /\ \A t \in Callers :
         (pc[t] \in {"Start_LockWait", "Stop_LockWait", "Update_LockWait"}) ~> InWrite(t)
    /\ [](\A t \in Callers :
            /\ t \in mu.r <=> InRead(t)
            /\ InWrite(t) => mu.w = {t}
            /\ t \in mu.w => pc[t] \in WriteSection \cup {"Start_LockWait", "Stop_LockWait", "Update_LockWait"})
    /\ []((\E t \in Callers : pc[t] # "idle") =>
            \E t \in Callers : ENABLED (Acquire(t) \/ Proceed(t)))
    /\ [][\A t \in Callers :
            (pc[t] # "idle" /\ pc'[t] = "idle") =>
                /\ t \in mu.w \cup mu.r
                /\ t \notin mu'.w \cup mu'.r]_vars

\* A writer has announced itself and waits while a snapshot is being
\* written under the read lock.
C22_Witness ==
    \E t, u \in Callers :
        /\ t # u
        /\ pc[t] = "Update_LockWait"
        /\ mu.w = {t}
        /\ u \in mu.r
        /\ pc[u] = "Snapshot_Writing"

====
